---- MODULE Spec2Model ----
(***************************************************************************)
(* Accommodation_Finder backend: expert consultation booking               *)
(* (controllers/expertController.js, models/ExpertConsultation.js),        *)
(* property visits and bookings (routes/bookings.js), property view        *)
(* tracking (GET /api/properties/:id), owner analytics and ratings         *)
(* (routes/owner.js and the owner portfolio routes), account deletion and  *)
(* the booking data script, property update and deletion, review           *)
(* submission, the owner's answer to a booking, role changes               *)
(* (routes/admin.js) and support chats (controllers/chatController.js).    *)
(***************************************************************************)
EXTENDS Integers, Sequences, FiniteSets, TLC

VARIABLES
  consultations,  \* ExpertConsultation collection: sequence of documents, _id = index
  bookings,       \* Booking collection: sequence of documents, _id = index
  properties,     \* Property collection: property id -> document (analytics.views
                  \* as views, analytics.bookings as bookings)
  enquiries,      \* Enquiry collection: sequence of documents
  favorites,      \* Favorite collection: sequence of documents
  reviews,        \* Review collection: sequence of documents, _id = index
  accounts,       \* User collection: the ids of the stored users
  userDocs,       \* User collection: user id -> the role and isActive of the document
  chats,          \* Chat collection: sequence of documents, _id = index
  now,            \* wall clock (hours)
  viewLog,        \* history: per <<user, property>> fetches made and views credited
  last,           \* the response of the latest request, with the request it answers
  pc,             \* in-flight request handlers: position of each
  preq,           \* in-flight request handlers: the request each is serving
  resp            \* in-flight request handlers: the response each has sent

vars == <<consultations, bookings, properties, enquiries, favorites, reviews, accounts,
          userDocs, chats, now, viewLog, last, pc, preq, resp>>

\* The collections no consultation, visit or view request touches.
others == <<enquiries, favorites, reviews, accounts, userDocs, chats>>

----------------------------------------------------------------------------
(* Bounds *)

MaxConsultations == 2
MaxBookings == 2
MaxViews == 3
MaxClock == 48
TickHours == 12
MaxDocuments == 3
MaxChats == 2
MaxMessages == 2

\* 24 * 60 * 60 * 1000 ms, in hours
DayHours == 24

----------------------------------------------------------------------------
(* Values *)

Undefined == "undefined"

\* Expert documents (Expert.findById); "e0" is an id of no expert.
Experts == {"e1", "e2"}
ExpertIds == Experts \cup {"e0"}

\* Users: u1, u2 are tenants, o1 and o2 owners, x1 and x2 the users of the
\* experts e1 and e2, adm an administrator.
Users == {"u1", "u2", "o1", "o2", "x1", "x2", "adm"}
Clients == {"u1"}
Actors == {"u1", "u2", "x1", "adm"}
ExpertUser(e) == IF e = "e1" THEN "x1" ELSE "x2"
Role(u) ==
  IF u = "adm" THEN "admin"
  ELSE IF u \in {"x1", "x2"} THEN "expert"
  ELSE IF u \in {"o1", "o2"} THEN "owner"
  ELSE "tenant"

\* A user as it is registered: userSchema.isActive defaults to true.
newUser(u) == [role |-> Role(u), isActive |-> TRUE]

\* Property documents; "p0" is an id of no property.
PropertyIds == {"pA"}
PropertyOwner(p) == "o1"

\* A property as it is created: no views, no bookings, active and visible.
newProperty(owner) ==
  [owner |-> owner, title |-> <<"S", "t", "u", "d", "i", "o">>,
   views |-> 0, bookings |-> 0, viewedBy |-> <<>>,
   isActive |-> TRUE, isVisible |-> TRUE]

\* Consultation dates (Date values, compared by value).
Dates == {"2024-06-01"}

\* "HH:MM" strings, kept as the digits of HH (":00" is common to all).
Hours == 9..11
TimeStr(h) == <<h \div 10, h % 10>>
TimeStrs == {TimeStr(h) : h \in Hours}

StatusEnum == {"scheduled", "confirmed", "completed", "cancelled", "no-show"}
StatusInputs == StatusEnum \cup {"rejected"}

----------------------------------------------------------------------------
(* String and Date comparison *)

\* MongoDB $lt on strings: lexicographic comparison of the characters.
RECURSIVE StrLt(_, _)
StrLt(a, b) ==
  IF b = <<>> THEN FALSE
  ELSE IF a = <<>> THEN TRUE
  ELSE IF Head(a) # Head(b) THEN Head(a) < Head(b)
  ELSE StrLt(Tail(a), Tail(b))

StrLe(a, b) == a = b \/ StrLt(a, b)

\* new Date(`1970-01-01T${t}:00`): minutes since midnight.
ParseTime(t) == (t[1] * 10 + t[2]) * 60

----------------------------------------------------------------------------
(* ExpertConsultation model *)

\* Mongoose schema validation, run by save() before the pre-save hooks:
\* status must be a member of the enum.
validateSchema(doc) ==
  IF doc.status \in StatusEnum THEN "ok" ELSE "ValidationError: status"

\* consultationSchema.pre('save'): the window must not be empty, and no other
\* scheduled or confirmed consultation of the expert starts at the same time.
preSave(db, doc, id, isNewOrTimeModified) ==
  IF ~isNewOrTimeModified THEN "ok"
  ELSE IF ParseTime(doc.startTime) >= ParseTime(doc.endTime)
       THEN "End time must be after start time"
  ELSE IF \E i \in DOMAIN db :
            /\ i # id
            /\ db[i].expert = doc.expert
            /\ db[i].date = doc.date
            /\ db[i].startTime = doc.startTime
            /\ db[i].status \in {"scheduled", "confirmed"}
       THEN "This time slot is already booked"
  ELSE "ok"

\* consultationSchema.index({date, startTime, expert}, {unique: true}): the
\* index covers every document, whatever its status.
uniqueIndexViolated(db, doc, id) ==
  \E i \in DOMAIN db :
    /\ i # id
    /\ db[i].date = doc.date
    /\ db[i].startTime = doc.startTime
    /\ db[i].expert = doc.expert

\* document.save(): validation, pre-save hook, then the write under the index.
saveError(db, doc, id, isNewOrTimeModified) ==
  IF validateSchema(doc) # "ok" THEN validateSchema(doc)
  ELSE IF preSave(db, doc, id, isNewOrTimeModified) # "ok"
       THEN preSave(db, doc, id, isNewOrTimeModified)
  ELSE IF uniqueIndexViolated(db, doc, id) THEN "E11000 duplicate key error"
  ELSE "ok"

----------------------------------------------------------------------------
(* expertController *)

\* The $or of the availability query, for one stored consultation c.
slotQueryMatches(c, startTime, endTime) ==
  \/ StrLt(c.startTime, endTime) /\ StrLt(startTime, c.endTime)
  \/ StrLe(startTime, c.startTime) /\ StrLt(c.startTime, endTime)

\* The availability query as it would be if it compared start times only.
checkExpertAvailabilitySameStart(db, expertId, date, startTime, endTime) ==
  ~ \E i \in DOMAIN db :
      /\ db[i].expert = expertId
      /\ db[i].date = date
      /\ db[i].startTime = startTime
      /\ db[i].status \notin {"cancelled", "rejected"}

\* The availability query as it would be with the pre-save hook's status filter.
checkExpertAvailabilityActiveOnly(db, expertId, date, startTime, endTime) ==
  ~ \E i \in DOMAIN db :
      /\ db[i].expert = expertId
      /\ db[i].date = date
      /\ slotQueryMatches(db[i], startTime, endTime)
      /\ db[i].status \in {"scheduled", "confirmed"}

checkExpertAvailability(db, expertId, date, startTime, endTime) ==
  ~ \E i \in DOMAIN db :
      /\ db[i].expert = expertId
      /\ db[i].date = date
      /\ slotQueryMatches(db[i], startTime, endTime)
      /\ db[i].status \notin {"cancelled", "rejected"}

canUpdateConsultation(consultation, user) ==
  \/ Role(user) = "admin"
  \/ user = consultation.user
  \/ user = ExpertUser(consultation.expert)

Reply(code, message, error, db) ==
  [code |-> code, message |-> message, error |-> error, db |-> db]

newConsultation(req) ==
  [user |-> req.user, expert |-> req.expertId, date |-> req.date,
   startTime |-> req.startTime, endTime |-> req.endTime, status |-> "scheduled"]

\* exports.bookConsultation; notifyOk: logConsultationActivity and
\* notifyExpertAboutBooking complete without throwing.
bookConsultation(db, req, notifyOk) ==
  LET doc == newConsultation(req)
      err == saveError(db, doc, Len(db) + 1, TRUE)
  IN IF req.expertId \notin Experts
       THEN Reply(404, "Expert not found", "", db)
     ELSE IF ~checkExpertAvailability(db, req.expertId, req.date, req.startTime, req.endTime)
       THEN Reply(400, "Selected time slot is not available", "", db)
     ELSE IF err # "ok"
       THEN Reply(500, "Failed to book consultation", err, db)
     ELSE IF ~notifyOk
       THEN Reply(500, "Failed to book consultation", "notifier failed", Append(db, doc))
     ELSE Reply(201, "", "", Append(db, doc))

\* exports.updateConsultationStatus
updateConsultationStatus(db, id, status, user, notifyOk) ==
  LET doc == [db[id] EXCEPT !.status = status]
      err == saveError(db, doc, id, FALSE)
  IN IF id \notin DOMAIN db
       THEN Reply(404, "Consultation not found", "", db)
     ELSE IF ~canUpdateConsultation(db[id], user)
       THEN Reply(403, "Not authorized to update this consultation", "", db)
     ELSE IF err # "ok"
       THEN Reply(500, "Failed to update consultation", err, db)
     ELSE IF ~notifyOk
       THEN Reply(500, "Failed to update consultation", "notifier failed",
                  [db EXCEPT ![id] = doc])
     ELSE Reply(200, "", "", [db EXCEPT ![id] = doc])

BookRequests ==
  [user : Clients, expertId : ExpertIds, date : Dates,
   startTime : TimeStrs, endTime : TimeStrs]

----------------------------------------------------------------------------
(* middleware/auth *)

\* auth: the request goes on only when User.findById(decoded.userId) finds
\* the user of the token.
auth(accts, user) == user \in accts

\* authorize(...roles): 403 unless the user's role is one of the roles.
authorize(roles, user) == Role(user) \in roles

\* The payload of a token, as auth reads it: decoded.userId.
TokenPayload(user) == [userId |-> user]

\* req.user when no middleware has set it (an object with no property).
NoUser == <<>>

\* JavaScript optional property access obj?.name: a missing property, or a
\* property of a missing object, reads as undefined.
Field(obj, name) ==
  IF name \in DOMAIN obj THEN obj[name] ELSE Undefined

----------------------------------------------------------------------------
(* routes/bookings *)

VisitDates == {"2024-06-01"}
VisitSlots == {"10:00-11:00", "11:00-12:00"}

\* body('visitDate').isISO8601(), body('visitTimeSlot').notEmpty()
visitValidationErrors(req) ==
  req.visitDate \notin VisitDates \/ req.visitTimeSlot = ""

\* The existing-visit query as it would be without the user filter.
existingVisitAnyUser(db, user, propertyId) ==
  \E i \in DOMAIN db :
    /\ db[i].property = propertyId
    /\ db[i].bookingType = "visit"
    /\ db[i].status \in {"pending", "confirmed"}

\* Booking.findOne({user, property, bookingType: 'visit', status: {$in: [...]}})
existingVisit(db, user, propertyId) ==
  \E i \in DOMAIN db :
    /\ db[i].user = user
    /\ db[i].property = propertyId
    /\ db[i].bookingType = "visit"
    /\ db[i].status \in {"pending", "confirmed"}

newVisit(req) ==
  [user |-> req.user, property |-> req.property, owner |-> PropertyOwner(req.property),
   bookingType |-> "visit", visitDate |-> req.visitDate,
   visitTimeSlot |-> req.visitTimeSlot, status |-> "pending"]

\* router.post('/visit', [auth, authorize('tenant'), ...]); the notification
\* block is inside its own try/catch and never changes the outcome.
postVisit(db, req) ==
  IF ~authorize({"tenant"}, req.user)
    THEN Reply(403, "Access denied. You do not have permission to perform this action.", "", db)
  ELSE IF visitValidationErrors(req)
    THEN Reply(400, "errors", "", db)
  ELSE IF req.property \notin PropertyIds
    THEN Reply(404, "Property not found", "", db)
  ELSE IF existingVisit(db, req.user, req.property)
    THEN Reply(400, "You already have a pending visit request for this property", "", db)
  ELSE Reply(201, "Visit scheduled successfully", "", Append(db, newVisit(req)))

BookingStatusEnum == {"pending", "confirmed", "cancelled", "completed"}

\* router.put('/:id/status', [auth, authorize('owner'), body('status').isIn(...)])
putBookingStatus(db, id, status, user) ==
  IF ~authorize({"owner"}, user)
    THEN Reply(403, "Access denied. You do not have permission to perform this action.", "", db)
  ELSE IF status \notin BookingStatusEnum
    THEN Reply(400, "errors", "", db)
  ELSE IF id \notin DOMAIN db
    THEN Reply(404, "Booking not found", "", db)
  ELSE IF PropertyOwner(db[id].property) # user
    THEN Reply(403, "Access denied", "", db)
  ELSE Reply(200, "Booking status updated successfully", "",
             [db EXCEPT ![id].status = status])

VisitRequests ==
  [user : {"u1", "u2", "o1"}, property : PropertyIds \cup {"p0"},
   visitDate : VisitDates \cup {"not a date"}, visitTimeSlot : VisitSlots \cup {""}]

----------------------------------------------------------------------------
(* GET /api/properties/:id: view tracking *)

\* The viewers whose fetches are followed: authenticated users.
Viewers == {"u1", "u2", "o1"}
IPs == {"ip1", "ip2"}

\* A request's credentials: no token, or a valid token of a user.
Credentials == {Undefined} \cup Viewers

\* optionalAuth: req.user = jwt.verify(token), the decoded payload.
optionalAuth(cred) == IF cred = Undefined THEN NoUser ELSE TokenPayload(cred)

\* property.viewedBy.some(view => view.user && view.user == userId)
alreadyViewed(viewedBy, userId) ==
  \E k \in DOMAIN viewedBy : viewedBy[k].user # Undefined /\ viewedBy[k].user = userId

\* The IP test as it would be if a view record of the IP never expired.
alreadyViewedByIPEver(viewedBy, userIP, at) ==
  \E k \in DOMAIN viewedBy : viewedBy[k].ipAddress = userIP

\* property.viewedBy.some(view => view.ipAddress === userIP && now - viewedAt < 24h)
alreadyViewedByIP(viewedBy, userIP, at) ==
  \E k \in DOMAIN viewedBy :
    viewedBy[k].ipAddress = userIP /\ at - viewedBy[k].viewedAt < DayHours

\* The update as it would be without $inc.
pushViewOnly(prop, view) == [prop EXCEPT !.viewedBy = Append(@, view)]

\* $push viewedBy, $inc analytics.views
pushView(prop, view) ==
  [prop EXCEPT !.viewedBy = Append(@, view), !.views = @ + 1]

\* router.get('/:id', optionalAuth, ...): the property document after the fetch.
getProperty(prop, cred, userIP, at) ==
  LET userId == Field(optionalAuth(cred), "_id")
  IN IF userId # Undefined /\ prop.owner # userId
       THEN IF ~alreadyViewed(prop.viewedBy, userId)
              THEN pushView(prop, [user |-> userId, viewedAt |-> at, ipAddress |-> userIP])
              ELSE prop
     ELSE IF userId = Undefined
       THEN IF ~alreadyViewedByIP(prop.viewedBy, userIP, at)
              THEN pushView(prop, [user |-> Undefined, viewedAt |-> at, ipAddress |-> userIP])
              ELSE prop
     ELSE prop

----------------------------------------------------------------------------
(* JavaScript numbers and their formatting *)

\* A number is kept as the exact fraction num/den; a string of digits as the
\* integer part followed by the digits after the point.
JSNumber(num, den) == [type |-> "number", num |-> num, den |-> den]
JSString(chars) == [type |-> "string", chars |-> chars]

RECURSIVE Pow10(_)
Pow10(k) == IF k = 0 THEN 1 ELSE 10 * Pow10(k - 1)

\* x * k and x / k for an integer k
Times(x, k) == JSNumber(x.num * k, x.den)
Over(x, k) == JSNumber(x.num, x.den * k)

\* Number.prototype.toFixed as it would be if it cut the further digits off.
toFixedTruncating(x, digits) ==
  LET n == (x.num * Pow10(digits)) \div x.den
  IN JSString(<<n \div Pow10(digits)>>
              \o [k \in 1..digits |-> (n \div Pow10(digits - k)) % 10])

\* Number.prototype.toFixed(digits), for x >= 0: the string of the integer n
\* for which n / 10^digits is nearest to x, the larger n of two.
toFixed(x, digits) ==
  LET n == (2 * x.num * Pow10(digits) + x.den) \div (2 * x.den)
  IN JSString(<<n \div Pow10(digits)>>
              \o [k \in 1..digits |-> (n \div Pow10(digits - k)) % 10])

\* The value of a sequence of decimal digits.
RECURSIVE DigitsValue(_)
DigitsValue(ds) ==
  IF ds = <<>> THEN 0
  ELSE 10 * DigitsValue(SubSeq(ds, 1, Len(ds) - 1)) + ds[Len(ds)]

\* parseFloat(v): a string of digits is read back as a number; a number is
\* converted to its string first and reads back as itself.
parseFloat(v) ==
  IF v.type = "number" THEN v
  ELSE LET frac == Tail(v.chars)
       IN JSNumber(Head(v.chars) * Pow10(Len(frac)) + DigitsValue(frac), Pow10(Len(frac)))

\* Math.round(x): floor(x + 0.5)
MathRound(x) == JSNumber((2 * x.num + x.den) \div (2 * x.den), 1)

\* array.reduce((sum, d) => sum + f[d], 0) over the elements S of an array;
\* a sequence of numbers is summed as reduce(ns, DOMAIN ns).
RECURSIVE reduce(_, _)
reduce(f, S) ==
  IF S = {} THEN 0
  ELSE LET x == CHOOSE x \in S : TRUE IN f[x] + reduce(f, S \ {x})

----------------------------------------------------------------------------
(* Bookings, enquiries, favourites, reviews and visibility *)

PortfolioIds == {"pA", "pB"}

newBooking(req, owner) ==
  [user |-> req.user, property |-> req.property, owner |-> owner,
   bookingType |-> "booking", visitDate |-> Undefined, visitTimeSlot |-> Undefined,
   status |-> "pending", tokenAmount |-> 0]

\* router.post('/book', [auth, authorize('tenant'), ...]): Booking.create, then
\* $inc analytics.bookings of the property.
postBook(props, db, req) ==
  IF ~authorize({"tenant"}, req.user)
    THEN [code |-> 403, db |-> db, props |-> props]
  ELSE IF req.property \notin DOMAIN props
    THEN [code |-> 404, db |-> db, props |-> props]
  ELSE [code |-> 201,
        db |-> Append(db, newBooking(req, props[req.property].owner)),
        props |-> [props EXCEPT ![req.property].bookings = @ + 1]]

\* router.post('/', [auth, ...]) of routes/enquiries: the enquiry is saved
\* before Notification.create, whose failure is answered 500.
postEnquiry(props, db, req, notifyOk) ==
  IF req.property \notin DOMAIN props
    THEN Reply(404, "Property not found", "", db)
  ELSE LET doc == [user |-> req.user, property |-> req.property,
                   owner |-> props[req.property].owner]
       IN IF notifyOk THEN Reply(201, "Enquiry sent successfully", "", Append(db, doc))
          ELSE Reply(500, "Server error", "notifier failed", Append(db, doc))

\* router.post('/:propertyId', auth, ...) of routes/favorites
postFavorite(props, db, req) ==
  IF req.property \notin DOMAIN props
    THEN Reply(404, "Property not found", "", db)
  ELSE IF \E i \in DOMAIN db : db[i].user = req.user /\ db[i].property = req.property
    THEN Reply(400, "Property already in favorites", "", db)
  ELSE Reply(201, "Property added to favorites", "",
             Append(db, [user |-> req.user, property |-> req.property]))

newReview(req, owner) ==
  [property |-> req.property, tenant |-> req.user, owner |-> owner,
   rating |-> req.rating, isActive |-> TRUE]

\* The existing-review query as it would be if it compared the owner.
existingReviewByOwner(db, req) ==
  \E i \in DOMAIN db : db[i].property = req.property /\ db[i].owner = req.user

\* Review.findOne({ property: propertyId, tenant: req.user._id })
existingReview(db, req) ==
  \E i \in DOMAIN db : db[i].property = req.property /\ db[i].tenant = req.user

\* The Review collection keeps one review per tenant per property: a second
\* document of the same property and tenant is refused on insert.
reviewIndexViolated(db, doc) ==
  \E i \in DOMAIN db : db[i].property = doc.property /\ db[i].tenant = doc.tenant

\* body('rating').isInt({ min: 1, max: 5 })
reviewValidationErrors(req) == req.rating \notin 1..5

\* router.post('/', [auth, authorize('tenant'), ...]) of routes/reviews
postReview(props, db, req) ==
  IF ~authorize({"tenant"}, req.user)
    THEN Reply(403, "Access denied. You do not have permission to perform this action.", "", db)
  ELSE IF reviewValidationErrors(req)
    THEN Reply(400, "errors", "", db)
  ELSE IF req.property \notin DOMAIN props
    THEN Reply(404, "Property not found", "", db)
  ELSE IF existingReview(db, req)
    THEN Reply(400, "You have already reviewed this property", "", db)
  ELSE Reply(201, "Review submitted successfully", "",
             Append(db, newReview(req, props[req.property].owner)))

\* router.delete('/:id', [auth, authorize('tenant')]) of routes/reviews
deleteReview(db, id, user) ==
  IF ~authorize({"tenant"}, user)
    THEN Reply(403, "Access denied. You do not have permission to perform this action.", "", db)
  ELSE IF id \notin DOMAIN db
    THEN Reply(404, "Review not found", "", db)
  ELSE IF db[id].tenant # user
    THEN Reply(403, "Not authorized to delete this review", "", db)
  ELSE Reply(200, "Review deleted successfully", "", [db EXCEPT ![id].isActive = FALSE])

\* router.put('/property/:id/visibility', [auth, authorize('owner')])
putVisibility(props, id, user, isVisible) ==
  IF ~authorize({"owner"}, user)
    THEN Reply(403, "Access denied. You do not have permission to perform this action.", "", props)
  ELSE IF id \notin DOMAIN props \/ props[id].owner # user
    THEN Reply(404, "Property not found", "", props)
  ELSE Reply(200, "Visibility updated", "", [props EXCEPT ![id].isVisible = isVisible])

\* Request bodies of a property update: any paths of the schema.
PropertyBodies ==
  { [title |-> <<"L", "o", "f", "t", " ", "2">>], [title |-> <<"L", "o", "f", "t">>],
    [isActive |-> TRUE], [owner |-> "o2"] }

\* body('title').optional().trim().isLength({ min: 5 })
propertyValidationErrors(body) == "title" \in DOMAIN body /\ Len(body.title) < 5

\* The owner test as it would be if every owner passed it.
ownsPropertyAnyOwner(prop, user) == TRUE

\* property.owner.toString() !== req.user._id.toString()
ownsProperty(prop, user) == prop.owner = user

\* router.put('/:id', [auth, authorize('owner'), ...]) of the property routes:
\* Property.findByIdAndUpdate(req.params.id, req.body)
putProperty(props, id, user, body) ==
  IF ~authorize({"owner"}, user)
    THEN Reply(403, "Access denied. You do not have permission to perform this action.", "", props)
  ELSE IF id \notin DOMAIN props
    THEN Reply(404, "Property not found", "", props)
  ELSE IF ~ownsProperty(props[id], user)
    THEN Reply(403, "Not authorized to update this property", "", props)
  ELSE IF propertyValidationErrors(body)
    THEN Reply(400, "errors", "", props)
  ELSE Reply(200, "Property updated successfully", "",
             [props EXCEPT ![id] =
                [f \in DOMAIN @ |-> IF f \in DOMAIN body THEN body[f] ELSE @[f]]])

\* router.delete('/:id', [auth, authorize('owner')]) of the property routes
deleteProperty(props, id, user) ==
  IF ~authorize({"owner"}, user)
    THEN Reply(403, "Access denied. You do not have permission to perform this action.", "", props)
  ELSE IF id \notin DOMAIN props
    THEN Reply(404, "Property not found", "", props)
  ELSE IF ~ownsProperty(props[id], user)
    THEN Reply(403, "Not authorized to delete this property", "", props)
  ELSE Reply(200, "Property deleted successfully", "", [props EXCEPT ![id].isActive = FALSE])

----------------------------------------------------------------------------
(* Analytics and ratings *)

\* totalViews > 0 ? ((totalBookings / totalViews) * 100).toFixed(2) : 0
conversionRate(totalBookings, totalViews) ==
  IF totalViews > 0
    THEN toFixed(Times(JSNumber(totalBookings, totalViews), 100), 2)
    ELSE JSNumber(0, 1)

\* reviews.reduce((sum, r) => sum + r.rating, 0)
sumRatings(revs) == reduce([i \in DOMAIN revs |-> revs[i].rating], DOMAIN revs)

\* reviews.length > 0 ? reduce(sum + rating) / reviews.length : 0
meanRating(revs) ==
  IF Len(revs) > 0 THEN JSNumber(sumRatings(revs), Len(revs)) ELSE JSNumber(0, 1)

\* Math.round(averageRating * 10) / 10
roundedRating(revs) == Over(MathRound(Times(meanRating(revs), 10)), 10)

\* reviews.length > 0 ? (sum / reviews.length).toFixed(1) : 0
fixedRating(revs) ==
  IF Len(revs) > 0 THEN toFixed(JSNumber(sumRatings(revs), Len(revs)), 1)
  ELSE JSNumber(0, 1)

\* Review.find({property, isActive: true}): property list and property detail
propertyReviews(revs, id) ==
  SelectSeq(revs, LAMBDA r : r.property = id /\ r.isActive)

propertyAverageRating(revs, id) == roundedRating(propertyReviews(revs, id))

\* router.get('/stats', auth, ...): Review.find({owner, isActive: true})
statsAverageRating(revs, user) ==
  roundedRating(SelectSeq(revs, LAMBDA r : r.owner = user /\ r.isActive))

\* GET /api/owner/analytics/:propertyId; user.toObject() throws for a
\* document whose user no longer exists.
propertyAnalytics(props, bks, enqs, favs, accts, id, user) ==
  IF ~authorize({"owner"}, user) THEN [code |-> 403, body |-> <<>>]
  ELSE IF id \notin DOMAIN props \/ props[id].owner # user
    THEN [code |-> 404, body |-> <<>>]
  ELSE IF \/ \E i \in DOMAIN favs : favs[i].property = id /\ favs[i].user \notin accts
          \/ \E i \in DOMAIN enqs : enqs[i].property = id /\ enqs[i].user \notin accts
          \/ \E i \in DOMAIN bks : bks[i].property = id /\ bks[i].user \notin accts
    THEN [code |-> 500, body |-> <<>>]
  ELSE [code |-> 200,
        body |-> [views |-> props[id].views,
                  bookings |-> props[id].bookings,
                  conversionRate |->
                    parseFloat(conversionRate(props[id].bookings, props[id].views))]]

\* The documents query as it would be without the property filter.
findAll(docs, ids) == docs

\* Model.find({ property: { $in: propertyIds } })
findInProperties(docs, ids) == SelectSeq(docs, LAMBDA d : d.property \in ids)

\* bookings.reduce((sum, b) => sum + (b.tokenAmount || 0), 0)
sumTokenAmount(bks) ==
  reduce([i \in DOMAIN bks |->
            IF "tokenAmount" \in DOMAIN bks[i] THEN bks[i].tokenAmount ELSE 0],
         DOMAIN bks)

\* One element of propertyAnalytics.
propertyRow(prop, id, bks, enqs, favs, revs) ==
  LET OfProperty(d) == d.property = id
  IN [views |-> Len(prop.viewedBy),
      enquiries |-> Len(SelectSeq(enqs, OfProperty)),
      bookings |-> Len(SelectSeq(bks, OfProperty)),
      favorites |-> Len(SelectSeq(favs, OfProperty)),
      reviews |-> Len(SelectSeq(revs, OfProperty)),
      revenue |-> sumTokenAmount(SelectSeq(bks, OfProperty)),
      averageRating |-> fixedRating(SelectSeq(revs, OfProperty))]

\* router.get('/analytics', [auth, authorize('owner')]) of the owner routes;
\* failing: the properties whose documents the database fails to return, any
\* of which throws into the single catch.
ownerAnalytics(props, bks, enqs, favs, revs, user, failing) ==
  LET ids == {p \in DOMAIN props :
                props[p].owner = user /\ props[p].isActive /\ props[p].isVisible}
      foundBookings == findInProperties(bks, ids)
      foundEnquiries == findInProperties(enqs, ids)
      foundFavorites == findInProperties(favs, ids)
      foundReviews == findInProperties(revs, ids)
      totalViews == reduce([p \in ids |-> Len(props[p].viewedBy)], ids)
  IN IF ~authorize({"owner"}, user) THEN [code |-> 403, body |-> <<>>]
     ELSE IF failing \cap ids # {} THEN [code |-> 500, body |-> <<>>]
     ELSE [code |-> 200,
           body |-> [totalProperties |-> Cardinality(ids),
                     totalViews |-> totalViews,
                     totalEnquiries |-> Len(foundEnquiries),
                     totalBookings |-> Len(foundBookings),
                     totalFavorites |-> Len(foundFavorites),
                     totalReviews |-> Len(foundReviews),
                     conversionRate |->
                       parseFloat(conversionRate(Len(foundBookings), totalViews)),
                     averageRating |-> parseFloat(fixedRating(foundReviews)),
                     totalRevenue |-> sumTokenAmount(foundBookings),
                     propertyAnalytics |->
                       [p \in ids |-> propertyRow(props[p], p, foundBookings,
                                                  foundEnquiries, foundFavorites,
                                                  foundReviews)]]]

----------------------------------------------------------------------------
(* routes/owner: respond to a booking request *)

NotificationTypes ==
  {"enquiry_created", "enquiry_replied", "visit_requested", "visit_responded", "general"}

\* Notification.create(doc): notificationSchema requires user and keeps type
\* within its enum.
validateNotification(doc) ==
  IF "user" \notin DOMAIN doc THEN "ValidationError: user"
  ELSE IF "type" \in DOMAIN doc /\ doc.type \notin NotificationTypes
    THEN "ValidationError: type"
  ELSE "ok"

\* bookingSchema.status enum, validated by booking.save()
validateBooking(doc) ==
  IF doc.status \in BookingStatusEnum THEN "ok" ELSE "ValidationError: status"

\* The notification the respond handler creates.
respondNotification(booking, status, user) ==
  [recipient |-> booking.user, sender |-> user, property |-> booking.property,
   type |-> IF status = "confirmed" THEN "booking_confirmed" ELSE "booking_rejected"]

\* router.put('/booking/:id/respond', [auth, authorize('owner'),
\* body('status').isIn(['confirmed', 'rejected'])]): booking.save(), then
\* Notification.create, both inside the handler's single try.
ownerRespond(db, id, status, user) ==
  LET doc == [db[id] EXCEPT !.status = status]
  IN IF ~authorize({"owner"}, user)
       THEN Reply(403, "Access denied. You do not have permission to perform this action.", "", db)
     ELSE IF status \notin {"confirmed", "rejected"}
       THEN Reply(400, "errors", "", db)
     ELSE IF id \notin DOMAIN db
       THEN Reply(404, "Booking not found", "", db)
     ELSE IF PropertyOwner(db[id].property) # user
       THEN Reply(403, "Access denied", "", db)
     ELSE IF validateBooking(doc) # "ok"
       THEN Reply(500, "Server error", validateBooking(doc), db)
     ELSE IF validateNotification(respondNotification(doc, status, user)) # "ok"
       THEN Reply(500, "Server error",
                  validateNotification(respondNotification(doc, status, user)),
                  [db EXCEPT ![id] = doc])
     ELSE Reply(200, "", "", [db EXCEPT ![id] = doc])

----------------------------------------------------------------------------
(* routes/admin *)

\* router.patch('/users/:userId/role', auth, ...): user is req.user, which the
\* handler never reads.
patchUserRole(docs, accts, user, userId, role) ==
  IF role \notin {"owner", "tenant"}
    THEN Reply(400, "Invalid role. Must be \"owner\" or \"tenant\"", "", docs)
  ELSE IF userId \notin accts
    THEN Reply(404, "User not found", "", docs)
  ELSE Reply(200, "User role updated successfully", "", [docs EXCEPT ![userId].role = role])

----------------------------------------------------------------------------
(* chatController *)

Null == "null"

\* req.user of the chat requests: id and isSupportAgent.
ChatCallers ==
  { [id |-> "u1", isSupportAgent |-> FALSE], [id |-> "u2", isSupportAgent |-> FALSE],
    [id |-> "adm", isSupportAgent |-> TRUE] }

\* ObjectId.equals, behind optional chaining: nothing equals null, and a null
\* or missing id equals nothing.
equals(a, b) == a \notin {Null, Undefined} /\ b \notin {Null, Undefined} /\ a = b

\* messageSchema: sender is required.
validateMessage(message) ==
  IF message.sender \in {Null, Undefined} THEN "ValidationError: sender" ELSE "ok"

\* exports.getOrCreateChat: the open chat of userId, created when there is none.
getOrCreateChat(db, userId, caller) ==
  LET supportAgentId == IF caller.isSupportAgent THEN caller.id ELSE Null
  IN IF \E i \in DOMAIN db : db[i].user = userId /\ db[i].status # "closed"
       THEN Reply(200, "", "", db)
     ELSE Reply(200, "", "",
                Append(db, [user |-> userId, supportAgent |-> supportAgentId,
                            status |-> "active", messages |-> <<>>]))

\* exports.sendMessage
sendMessage(db, chatId, caller, isBot) ==
  LET senderId == IF isBot THEN Null ELSE caller.id
      message == [sender |-> senderId, isBot |-> isBot]
      chat == db[chatId]
      pushed == [chat EXCEPT !.messages = Append(@, message)]
      doc == IF caller.isSupportAgent /\ Field(chat, "supportAgent") \in {Null, Undefined}
               THEN [f \in DOMAIN pushed \cup {"supportAgent"} |->
                       IF f = "supportAgent" THEN senderId ELSE pushed[f]]
               ELSE pushed
  IN IF chatId \notin DOMAIN db
       THEN Reply(404, "Chat not found", "", db)
     ELSE IF /\ ~equals(chat.user, senderId)
             /\ ~equals(Field(chat, "supportAgent"), senderId)
             /\ ~isBot
       THEN Reply(403, "Not authorized to send message in this chat", "", db)
     ELSE IF validateMessage(message) # "ok"
       THEN Reply(500, "Failed to send message", validateMessage(message), db)
     ELSE Reply(201, "", "", [db EXCEPT ![chatId] = doc])

\* The query of closeChat as it would be if a null supportAgent counted as
\* a missing one.
closeChatQueryNullAsMissing(chat, userId) ==
  \/ chat.user = userId
  \/ Field(chat, "supportAgent") = userId
  \/ Field(chat, "supportAgent") \in {Null, Undefined}

\* $or: [{ user }, { supportAgent: userId }, { supportAgent: { $exists: false } }]
closeChatQuery(chat, userId) ==
  \/ chat.user = userId
  \/ Field(chat, "supportAgent") = userId
  \/ "supportAgent" \notin DOMAIN chat

\* exports.closeChat
closeChat(db, chatId, caller) ==
  IF chatId \notin DOMAIN db \/ ~closeChatQuery(db[chatId], caller.id)
    THEN Reply(404, "Chat not found or access denied", "", db)
  ELSE Reply(200, "Chat closed successfully", "", [db EXCEPT ![chatId].status = "closed"])

----------------------------------------------------------------------------
(* Initial state and requests served one at a time *)

Procs == {"p1", "p2"}

Init ==
  /\ consultations = <<>>
  /\ bookings = <<>>
  /\ properties = [p \in PropertyIds |-> newProperty(PropertyOwner(p))]
  /\ enquiries = <<>>
  /\ favorites = <<>>
  /\ reviews = <<>>
  /\ accounts = Users
  /\ userDocs = [u \in Users |-> newUser(u)]
  /\ chats = <<>>
  /\ now = 0
  /\ viewLog = [u \in Viewers |-> [fetched |-> FALSE, credited |-> 0]]
  /\ last = [op |-> "none", code |-> 0, error |-> ""]
  /\ pc = [p \in Procs |-> "idle"]
  /\ preq = [p \in Procs |-> Undefined]
  /\ resp = [p \in Procs |-> 0]

\* Whether the notifier can fail: it is reached only after a successful save.
NotifyFailures(saved) == IF saved THEN BOOLEAN ELSE {FALSE}

BookConsultation ==
  \E req \in BookRequests :
    \E notifyFails \in NotifyFailures(bookConsultation(consultations, req, TRUE).code = 201) :
      LET r == bookConsultation(consultations, req, ~notifyFails)
      IN /\ Len(r.db) <= MaxConsultations
         /\ consultations' = r.db
         /\ last' = [op |-> "bookConsultation", code |-> r.code, error |-> r.error]
         /\ UNCHANGED <<bookings, properties, now, viewLog, pc, preq, resp, others>>

UpdateConsultationStatus ==
  \E id \in 1..MaxConsultations, status \in StatusInputs, user \in Actors :
    \E notifyFails \in NotifyFailures(
           updateConsultationStatus(consultations, id, status, user, TRUE).code = 200) :
      LET r == updateConsultationStatus(consultations, id, status, user, ~notifyFails)
      IN /\ consultations' = r.db
         /\ last' = [op |-> "updateConsultationStatus", code |-> r.code, error |-> r.error]
         /\ UNCHANGED <<bookings, properties, now, viewLog, pc, preq, resp, others>>

Next == BookConsultation \/ UpdateConsultationStatus

Spec == Init /\ [][Next]_vars

\* Visits and booking status updates (routes/bookings).
PostVisit ==
  \E req \in VisitRequests :
    LET r == postVisit(bookings, req)
    IN /\ auth(accounts, req.user)
       /\ Len(r.db) <= MaxBookings
       /\ bookings' = r.db
       /\ last' = [op |-> "postVisit", code |-> r.code, error |-> r.message]
       /\ UNCHANGED <<consultations, properties, now, viewLog, pc, preq, resp, others>>

PutBookingStatus ==
  \E id \in 1..MaxBookings, status \in BookingStatusEnum \cup {"rejected"},
     user \in {"o1", "o2", "u1"} :
    LET r == putBookingStatus(bookings, id, status, user)
    IN /\ auth(accounts, user)
       /\ bookings' = r.db
       /\ last' = [op |-> "putBookingStatus", code |-> r.code, error |-> r.message]
       /\ UNCHANGED <<consultations, properties, now, viewLog, pc, preq, resp, others>>

NextVisit == PostVisit \/ PutBookingStatus

SpecVisit == Init /\ [][NextVisit]_vars

\* Property detail fetches and the passing of time.
GetProperty ==
  \E id \in PropertyIds \cup {"p0"}, cred \in Credentials, userIP \in IPs :
    IF id \notin PropertyIds
      THEN /\ last' = [op |-> "getProperty", code |-> 404, error |-> "Property not found"]
           /\ UNCHANGED <<consultations, bookings, properties, now, viewLog, pc, preq, resp, others>>
      ELSE LET after == getProperty(properties[id], cred, userIP, now)
           IN /\ after.views <= MaxViews
              /\ properties' = [properties EXCEPT ![id] = after]
              /\ viewLog' = IF cred = Undefined THEN viewLog
                            ELSE [viewLog EXCEPT ![cred] =
                                    [fetched |-> TRUE,
                                     credited |-> @.credited + after.views - properties[id].views]]
              /\ last' = [op |-> "getProperty", code |-> 200, error |-> ""]
              /\ UNCHANGED <<consultations, bookings, now, pc, preq, resp, others>>

Tick ==
  /\ now + TickHours <= MaxClock
  /\ now' = now + TickHours
  /\ UNCHANGED <<consultations, bookings, properties, viewLog, last, pc, preq, resp, others>>

NextView == GetProperty \/ Tick

SpecView == Init /\ [][NextView]_vars

----------------------------------------------------------------------------
(* One property: detail views, bookings and visit requests *)

AnalyticsIPs == {"ip1", "ip2", "ip3"}

\* GET /api/properties/:id without a token.
ViewDetail ==
  \E id \in PropertyIds, userIP \in AnalyticsIPs :
    LET after == getProperty(properties[id], Undefined, userIP, now)
    IN /\ after.views <= MaxViews
       /\ properties' = [properties EXCEPT ![id] = after]
       /\ last' = [op |-> "getProperty", code |-> 200, error |-> ""]
       /\ UNCHANGED <<consultations, bookings, now, viewLog, pc, preq, resp, others>>

\* POST /api/bookings/book
PostBook ==
  \E req \in [user : {"u1", "o1"}, property : PropertyIds \cup {"p0"}] :
    LET r == postBook(properties, bookings, req)
    IN /\ Len(r.db) <= MaxBookings
       /\ bookings' = r.db
       /\ properties' = r.props
       /\ last' = [op |-> "postBook", code |-> r.code, error |-> ""]
       /\ UNCHANGED <<consultations, now, viewLog, pc, preq, resp, others>>

\* POST /api/bookings/visit, for one date and time slot.
RequestVisit ==
  \E req \in [user : {"u1", "u2"}, property : PropertyIds,
              visitDate : VisitDates, visitTimeSlot : {"10:00-11:00"}] :
    LET r == postVisit(bookings, req)
    IN /\ Len(r.db) <= MaxBookings
       /\ bookings' = r.db
       /\ last' = [op |-> "postVisit", code |-> r.code, error |-> r.message]
       /\ UNCHANGED <<consultations, properties, now, viewLog, pc, preq, resp, others>>

NextAnalytics == ViewDetail \/ PostBook \/ RequestVisit

SpecAnalytics == Init /\ [][NextAnalytics]_vars

----------------------------------------------------------------------------
(* An owner's portfolio of two properties *)

InitPortfolio ==
  /\ consultations = <<>>
  /\ bookings = <<>>
  /\ properties = [p \in PortfolioIds |-> newProperty(PropertyOwner(p))]
  /\ enquiries = <<>>
  /\ favorites = <<>>
  /\ reviews = <<>>
  /\ accounts = Users
  /\ userDocs = [u \in Users |-> newUser(u)]
  /\ chats = <<>>
  /\ now = 0
  /\ viewLog = [u \in Viewers |-> [fetched |-> FALSE, credited |-> 0]]
  /\ last = [op |-> "none", code |-> 0, error |-> ""]
  /\ pc = [p \in Procs |-> "idle"]
  /\ preq = [p \in Procs |-> Undefined]
  /\ resp = [p \in Procs |-> 0]

\* The documents stored for the portfolio: view records included.
DocumentCount ==
  Len(bookings) + Len(enquiries) + Len(favorites) + Len(reviews)
  + reduce([p \in DOMAIN properties |-> Len(properties[p].viewedBy)], DOMAIN properties)

PortfolioView ==
  /\ DocumentCount < MaxDocuments
  /\ \E id \in PortfolioIds :
       /\ properties' = [properties EXCEPT
                           ![id] = getProperty(properties[id], Undefined, "ip1", now)]
       /\ last' = [op |-> "getProperty", code |-> 200, error |-> ""]
  /\ UNCHANGED <<consultations, bookings, enquiries, favorites, reviews, accounts,
                 now, viewLog, pc, preq, resp, userDocs, chats>>

PortfolioBook ==
  /\ DocumentCount < MaxDocuments
  /\ \E req \in [user : {"u1"}, property : PortfolioIds] :
       LET r == postBook(properties, bookings, req)
       IN /\ bookings' = r.db
          /\ properties' = r.props
          /\ last' = [op |-> "postBook", code |-> r.code, error |-> ""]
  /\ UNCHANGED <<consultations, enquiries, favorites, reviews, accounts,
                 now, viewLog, pc, preq, resp, userDocs, chats>>

PostEnquiry ==
  /\ DocumentCount < MaxDocuments
  /\ \E req \in [user : {"u1"}, property : PortfolioIds \cup {"p0"}], notifyFails \in BOOLEAN :
       LET r == postEnquiry(properties, enquiries, req, ~notifyFails)
       IN /\ enquiries' = r.db
          /\ last' = [op |-> "postEnquiry", code |-> r.code, error |-> r.error]
  /\ UNCHANGED <<consultations, bookings, properties, favorites, reviews, accounts,
                 now, viewLog, pc, preq, resp, userDocs, chats>>

PostFavorite ==
  /\ DocumentCount < MaxDocuments
  /\ \E req \in [user : {"u1"}, property : PortfolioIds] :
       LET r == postFavorite(properties, favorites, req)
       IN /\ favorites' = r.db
          /\ last' = [op |-> "postFavorite", code |-> r.code, error |-> r.message]
  /\ UNCHANGED <<consultations, bookings, properties, enquiries, reviews, accounts,
                 now, viewLog, pc, preq, resp, userDocs, chats>>

PostReview ==
  /\ DocumentCount < MaxDocuments
  /\ \E req \in [user : {"u1", "u2"}, property : PortfolioIds, rating : {4, 5, 6}] :
       LET r == postReview(properties, reviews, req)
       IN /\ reviews' = r.db
          /\ last' = [op |-> "postReview", code |-> r.code, error |-> r.message]
  /\ UNCHANGED <<consultations, bookings, properties, enquiries, favorites, accounts,
                 now, viewLog, pc, preq, resp, userDocs, chats>>

DeleteReview ==
  \E id \in DOMAIN reviews, user \in {"u1", "u2"} :
    LET r == deleteReview(reviews, id, user)
    IN /\ reviews' = r.db
       /\ last' = [op |-> "deleteReview", code |-> r.code, error |-> r.message]
       /\ UNCHANGED <<consultations, bookings, properties, enquiries, favorites, accounts,
                      now, viewLog, pc, preq, resp, userDocs, chats>>

PutVisibility ==
  \E id \in PortfolioIds, user \in {"o1", "o2"}, isVisible \in BOOLEAN :
    LET r == putVisibility(properties, id, user, isVisible)
    IN /\ properties' = r.db
       /\ last' = [op |-> "putVisibility", code |-> r.code, error |-> r.message]
       /\ UNCHANGED <<consultations, bookings, enquiries, favorites, reviews, accounts,
                      now, viewLog, pc, preq, resp, userDocs, chats>>

NextPortfolio ==
  \/ PortfolioView \/ PortfolioBook \/ PostEnquiry \/ PostFavorite
  \/ PostReview \/ DeleteReview \/ PutVisibility

SpecPortfolio == InitPortfolio /\ [][NextPortfolio]_vars

----------------------------------------------------------------------------
(* Account deletion and the booking data script *)

\* Model.deleteMany(filter) for a filter on a path the documents do not have:
\* with strictQuery the path is dropped from the filter, which then matches
\* every document; without it the filter matches none.
deleteManyByAbsentPath(db, strictQuery) == IF strictQuery THEN <<>> ELSE db

\* Model.deleteMany({ user })
deleteManyByUser(db, user) == SelectSeq(db, LAMBDA d : d.user # user)

\* router.delete('/account', [auth, authorize('tenant')]) of the tenant
\* profile routes. Booking documents have no path tenant; reviewUserPath: the
\* Review schema declares a path user, which no stored review sets.
deleteAccount(bks, enqs, favs, revs, accts, user, passwordOk, strictQuery, reviewUserPath) ==
  LET same == [code |-> 0, bookings |-> bks, enquiries |-> enqs, favorites |-> favs,
               reviews |-> revs, accounts |-> accts]
  IN IF ~authorize({"tenant"}, user) THEN [same EXCEPT !.code = 403]
     ELSE IF ~passwordOk THEN [same EXCEPT !.code = 400]
     ELSE [code |-> 200,
           bookings |-> deleteManyByAbsentPath(bks, strictQuery),
           enquiries |-> deleteManyByUser(enqs, user),
           favorites |-> deleteManyByUser(favs, user),
           reviews |-> deleteManyByAbsentPath(revs, strictQuery /\ ~reviewUserPath),
           accounts |-> accts \ {user}]

\* Review.deleteMany({ tenant })
deleteManyByTenant(db, user) == SelectSeq(db, LAMBDA d : d.tenant # user)

\* Property.deleteMany({ owner })
deleteManyByOwner(props, user) ==
  [p \in {q \in DOMAIN props : props[q].owner # user} |-> props[p]]

\* router.delete('/delete-account', [auth, ...]) of the user settings routes:
\* the user and an owner's properties are deactivated, the user's reviews deleted.
deleteSettingsAccount(props, revs, docs, user, passwordOk) ==
  IF ~passwordOk
    THEN [code |-> 400, properties |-> props, reviews |-> revs, userDocs |-> docs]
  ELSE [code |-> 200,
        properties |->
          IF docs[user].role = "owner"
            THEN [p \in DOMAIN props |->
                    IF props[p].owner = user
                      THEN [props[p] EXCEPT !.isActive = FALSE, !.isVisible = FALSE]
                      ELSE props[p]]
            ELSE props,
        reviews |-> deleteManyByTenant(revs, user),
        userDocs |-> [docs EXCEPT ![user].isActive = FALSE]]

\* router.delete('/account', [auth, authorize('owner')]) of the owner profile
\* routes: the owner's properties and the user are deleted.
deleteOwnerAccount(props, accts, user, passwordOk) ==
  IF ~authorize({"owner"}, user) THEN [code |-> 403, properties |-> props, accounts |-> accts]
  ELSE IF ~passwordOk THEN [code |-> 400, properties |-> props, accounts |-> accts]
  ELSE [code |-> 200, properties |-> deleteManyByOwner(props, user),
        accounts |-> accts \ {user}]

DeleteAccount ==
  \E user \in {"u1", "u2", "o1"}, passwordOk \in BOOLEAN,
     strictQuery \in BOOLEAN, reviewUserPath \in BOOLEAN :
    LET r == deleteAccount(bookings, enquiries, favorites, reviews, accounts,
                           user, passwordOk, strictQuery, reviewUserPath)
    IN /\ auth(accounts, user)
       /\ bookings' = r.bookings
       /\ enquiries' = r.enquiries
       /\ favorites' = r.favorites
       /\ reviews' = r.reviews
       /\ accounts' = r.accounts
       /\ last' = [op |-> "deleteAccount", code |-> r.code, error |-> ""]
       /\ UNCHANGED <<consultations, properties, now, viewLog, pc, preq, resp, userDocs, chats>>

\* scripts/clearBookingData.js: Booking.deleteMany({}), Enquiry.deleteMany({})
ClearBookingData ==
  /\ bookings' = <<>>
  /\ enquiries' = <<>>
  /\ last' = [op |-> "clearBookingData", code |-> 0, error |-> ""]
  /\ UNCHANGED <<consultations, properties, favorites, reviews, accounts,
                 now, viewLog, pc, preq, resp, userDocs, chats>>

NextLifecycle == PostVisit \/ PutBookingStatus \/ ClearBookingData \/ DeleteAccount

SpecLifecycle == Init /\ [][NextLifecycle]_vars

----------------------------------------------------------------------------
(* Properties and reviews: submission, update and deletion *)

PutProperty ==
  \E id \in PropertyIds \cup {"p0"}, user \in {"u1", "o1", "o2"}, body \in PropertyBodies :
    LET r == putProperty(properties, id, user, body)
    IN /\ auth(accounts, user)
       /\ properties' = r.db
       /\ last' = [op |-> "putProperty", code |-> r.code, error |-> r.message]
       /\ UNCHANGED <<consultations, bookings, now, viewLog, pc, preq, resp, others>>

DeleteProperty ==
  \E id \in PropertyIds \cup {"p0"}, user \in {"u1", "o1", "o2"} :
    LET r == deleteProperty(properties, id, user)
    IN /\ auth(accounts, user)
       /\ properties' = r.db
       /\ last' = [op |-> "deleteProperty", code |-> r.code, error |-> r.message]
       /\ UNCHANGED <<consultations, bookings, now, viewLog, pc, preq, resp, others>>

DeleteSettingsAccount ==
  \E user \in {"u1", "o1"}, passwordOk \in BOOLEAN :
    LET r == deleteSettingsAccount(properties, reviews, userDocs, user, passwordOk)
    IN /\ auth(accounts, user)
       /\ properties' = r.properties
       /\ reviews' = r.reviews
       /\ userDocs' = r.userDocs
       /\ last' = [op |-> "deleteSettingsAccount", code |-> r.code, error |-> ""]
       /\ UNCHANGED <<consultations, bookings, enquiries, favorites, accounts, chats,
                      now, viewLog, pc, preq, resp>>

DeleteOwnerAccount ==
  \E user \in {"u1", "o1", "o2"}, passwordOk \in BOOLEAN :
    LET r == deleteOwnerAccount(properties, accounts, user, passwordOk)
    IN /\ auth(accounts, user)
       /\ properties' = r.properties
       /\ accounts' = r.accounts
       /\ last' = [op |-> "deleteOwnerAccount", code |-> r.code, error |-> ""]
       /\ UNCHANGED <<consultations, bookings, enquiries, favorites, reviews, userDocs, chats,
                      now, viewLog, pc, preq, resp>>

NextRecords ==
  \/ PostReview \/ DeleteReview \/ PutProperty \/ DeleteProperty
  \/ DeleteSettingsAccount \/ DeleteOwnerAccount

SpecRecords == Init /\ [][NextRecords]_vars

----------------------------------------------------------------------------
(* Visits, status updates and the owner's answers *)

OwnerRespond ==
  \E id \in 1..MaxBookings, status \in {"confirmed", "rejected", "pending"},
     user \in {"o1", "o2", "u1"} :
    LET r == ownerRespond(bookings, id, status, user)
    IN /\ auth(accounts, user)
       /\ bookings' = r.db
       /\ last' = [op |-> "ownerRespond", code |-> r.code, error |-> r.error]
       /\ UNCHANGED <<consultations, properties, now, viewLog, pc, preq, resp, others>>

NextRespond == PostVisit \/ PutBookingStatus \/ OwnerRespond

SpecRespond == Init /\ [][NextRespond]_vars

----------------------------------------------------------------------------
(* Role changes *)

RoleInputs == {"owner", "tenant", "admin"}

PatchUserRole ==
  \E user \in Users, userId \in Users \cup {"u0"}, role \in RoleInputs :
    LET r == patchUserRole(userDocs, accounts, user, userId, role)
    IN /\ auth(accounts, user)
       /\ userDocs' = r.db
       /\ last' = [op |-> "patchUserRole", code |-> r.code, error |-> r.message]
       /\ UNCHANGED <<consultations, bookings, properties, enquiries, favorites, reviews,
                      accounts, chats, now, viewLog, pc, preq, resp>>

NextAdmin == PatchUserRole

SpecAdmin == Init /\ [][NextAdmin]_vars

----------------------------------------------------------------------------
(* Support chats *)

\* The messages stored in all chats.
MessageCount == reduce([i \in DOMAIN chats |-> Len(chats[i].messages)], DOMAIN chats)

GetOrCreateChat ==
  \E userId \in {"u1", "u2"}, caller \in ChatCallers :
    LET r == getOrCreateChat(chats, userId, caller)
    IN /\ Len(r.db) <= MaxChats
       /\ chats' = r.db
       /\ last' = [op |-> "getOrCreateChat", code |-> r.code, error |-> ""]
       /\ UNCHANGED <<consultations, bookings, properties, enquiries, favorites, reviews,
                      accounts, userDocs, now, viewLog, pc, preq, resp>>

SendMessage ==
  \E chatId \in 1..MaxChats, caller \in ChatCallers, isBot \in BOOLEAN :
    LET r == sendMessage(chats, chatId, caller, isBot)
    IN /\ r.db # chats => MessageCount < MaxMessages
       /\ chats' = r.db
       /\ last' = [op |-> "sendMessage", code |-> r.code, error |-> r.error]
       /\ UNCHANGED <<consultations, bookings, properties, enquiries, favorites, reviews,
                      accounts, userDocs, now, viewLog, pc, preq, resp>>

CloseChat ==
  \E chatId \in 1..MaxChats, caller \in ChatCallers :
    LET r == closeChat(chats, chatId, caller)
    IN /\ chats' = r.db
       /\ last' = [op |-> "closeChat", code |-> r.code, error |-> ""]
       /\ UNCHANGED <<consultations, bookings, properties, enquiries, favorites, reviews,
                      accounts, userDocs, now, viewLog, pc, preq, resp>>

NextChat == GetOrCreateChat \/ SendMessage \/ CloseChat

SpecChat == Init /\ [][NextChat]_vars

----------------------------------------------------------------------------
(* Concurrent review submissions: one step per awaited operation *)

ReviewRequests ==
  [user : {"u1", "u2", "o1"}, property : PropertyIds \cup {"p0"}, rating : {5, 6}]

\* authorize('tenant'), validationResult, await Property.findById(propertyId)
ReviewFind(p) ==
  /\ pc[p] = "idle"
  /\ \E req \in ReviewRequests :
       /\ preq' = [preq EXCEPT ![p] = req]
       /\ IF ~authorize({"tenant"}, req.user)
            THEN pc' = [pc EXCEPT ![p] = "done"] /\ resp' = [resp EXCEPT ![p] = 403]
          ELSE IF reviewValidationErrors(req)
            THEN pc' = [pc EXCEPT ![p] = "done"] /\ resp' = [resp EXCEPT ![p] = 400]
          ELSE IF req.property \notin DOMAIN properties
            THEN pc' = [pc EXCEPT ![p] = "done"] /\ resp' = [resp EXCEPT ![p] = 404]
          ELSE pc' = [pc EXCEPT ![p] = "check"] /\ UNCHANGED resp
  /\ UNCHANGED <<consultations, bookings, properties, now, viewLog, last, others>>

\* await Review.findOne({ property, tenant })
ReviewCheck(p) ==
  /\ pc[p] = "check"
  /\ IF existingReview(reviews, preq[p])
       THEN pc' = [pc EXCEPT ![p] = "done"] /\ resp' = [resp EXCEPT ![p] = 400]
       ELSE pc' = [pc EXCEPT ![p] = "save"] /\ UNCHANGED resp
  /\ UNCHANGED <<consultations, bookings, properties, now, viewLog, last, preq, others>>

\* await review.save(): a refused insert is thrown into the catch
ReviewSave(p) ==
  /\ pc[p] = "save"
  /\ LET doc == newReview(preq[p], properties[preq[p].property].owner)
     IN IF reviewIndexViolated(reviews, doc)
          THEN /\ resp' = [resp EXCEPT ![p] = 500]
               /\ UNCHANGED reviews
          ELSE /\ resp' = [resp EXCEPT ![p] = 201]
               /\ reviews' = Append(reviews, doc)
  /\ pc' = [pc EXCEPT ![p] = "done"]
  /\ UNCHANGED <<consultations, bookings, properties, enquiries, favorites, accounts,
                 userDocs, chats, now, viewLog, last, preq>>

NextReviewRace == \E p \in Procs : ReviewFind(p) \/ ReviewCheck(p) \/ ReviewSave(p)

SpecReviewRace == Init /\ [][NextReviewRace]_vars

----------------------------------------------------------------------------
(* Concurrent bookConsultation requests: one step per awaited operation *)

\* await Expert.findById(expertId)
BookFindExpert(p) ==
  /\ pc[p] = "idle"
  /\ \E req \in BookRequests :
       /\ preq' = [preq EXCEPT ![p] = req]
       /\ IF req.expertId \notin Experts
            THEN pc' = [pc EXCEPT ![p] = "done"] /\ resp' = [resp EXCEPT ![p] = 404]
            ELSE pc' = [pc EXCEPT ![p] = "check"] /\ UNCHANGED resp
  /\ UNCHANGED <<consultations, bookings, properties, now, viewLog, last, others>>

\* await checkExpertAvailability(...)
BookCheck(p) ==
  /\ pc[p] = "check"
  /\ IF checkExpertAvailability(consultations, preq[p].expertId, preq[p].date,
                                preq[p].startTime, preq[p].endTime)
       THEN pc' = [pc EXCEPT ![p] = "save"] /\ UNCHANGED resp
       ELSE pc' = [pc EXCEPT ![p] = "done"] /\ resp' = [resp EXCEPT ![p] = 400]
  /\ UNCHANGED <<consultations, bookings, properties, now, viewLog, last, preq, others>>

\* consultation.save(): validation and the pre-save hook's findOne
BookPreSave(p) ==
  /\ pc[p] = "save"
  /\ LET doc == newConsultation(preq[p])
     IN IF validateSchema(doc) = "ok"
           /\ preSave(consultations, doc, Len(consultations) + 1, TRUE) = "ok"
          THEN pc' = [pc EXCEPT ![p] = "insert"] /\ UNCHANGED resp
          ELSE pc' = [pc EXCEPT ![p] = "done"] /\ resp' = [resp EXCEPT ![p] = 500]
  /\ UNCHANGED <<consultations, bookings, properties, now, viewLog, last, preq, others>>

\* consultation.save(): the insert, atomic with the unique index
BookInsert(p) ==
  /\ pc[p] = "insert"
  /\ LET doc == newConsultation(preq[p])
     IN IF uniqueIndexViolated(consultations, doc, Len(consultations) + 1)
          THEN /\ pc' = [pc EXCEPT ![p] = "done"]
               /\ resp' = [resp EXCEPT ![p] = 500]
               /\ UNCHANGED consultations
          ELSE /\ pc' = [pc EXCEPT ![p] = "notify"]
               /\ consultations' = Append(consultations, doc)
               /\ UNCHANGED resp
  /\ UNCHANGED <<bookings, properties, now, viewLog, last, preq, others>>

\* await logConsultationActivity(...); await notifyExpertAboutBooking(...)
BookNotify(p) ==
  /\ pc[p] = "notify"
  /\ \E notifyFails \in BOOLEAN :
       resp' = [resp EXCEPT ![p] = IF notifyFails THEN 500 ELSE 201]
  /\ pc' = [pc EXCEPT ![p] = "done"]
  /\ UNCHANGED <<consultations, bookings, properties, now, viewLog, last, preq, others>>

NextRace ==
  \E p \in Procs :
    BookFindExpert(p) \/ BookCheck(p) \/ BookPreSave(p) \/ BookInsert(p) \/ BookNotify(p)

SpecRace == Init /\ [][NextRace]_vars

----------------------------------------------------------------------------
(* Concurrent property detail fetches: one step per awaited operation *)

\* await Property.findById(req.params.id): the request keeps the document it read.
ViewFind(p) ==
  /\ pc[p] = "idle"
  /\ \E id \in PropertyIds \cup {"p0"}, cred \in Credentials, userIP \in IPs :
       IF id \notin PropertyIds
         THEN /\ pc' = [pc EXCEPT ![p] = "done"]
              /\ resp' = [resp EXCEPT ![p] = 404]
              /\ preq' = [preq EXCEPT ![p] = [id |-> id, cred |-> cred, ip |-> userIP,
                                               property |-> Undefined]]
         ELSE /\ pc' = [pc EXCEPT ![p] = "track"]
              /\ preq' = [preq EXCEPT ![p] = [id |-> id, cred |-> cred, ip |-> userIP,
                                               property |-> properties[id]]]
              /\ UNCHANGED resp
  /\ UNCHANGED <<consultations, bookings, properties, now, viewLog, last, others>>

\* The view test on the document read, then await Property.findByIdAndUpdate
\* ($push, $inc), which is applied to the stored document.
ViewTrack(p) ==
  /\ pc[p] = "track"
  /\ LET read == preq[p].property
         after == getProperty(read, preq[p].cred, preq[p].ip, now)
     IN IF after = read
          THEN UNCHANGED properties
          ELSE properties' = [properties EXCEPT ![preq[p].id] =
                                pushView(@, after.viewedBy[Len(after.viewedBy)])]
  /\ pc' = [pc EXCEPT ![p] = "done"]
  /\ resp' = [resp EXCEPT ![p] = 200]
  /\ UNCHANGED <<consultations, bookings, now, viewLog, last, preq, others>>

NextViewRace == \E p \in Procs : ViewFind(p) \/ ViewTrack(p)

SpecViewRace == Init /\ [][NextViewRace]_vars

----------------------------------------------------------------------------
(* Properties of consultation booking *)

\* A consultation that is neither cancelled nor rejected.
Occupies(c) == c.status \notin {"cancelled", "rejected"}

\* Half-open windows [start, end) of a and b intersect (times as minutes).
WindowsOverlap(a, b) ==
  /\ ParseTime(a.startTime) < ParseTime(b.endTime)
  /\ ParseTime(b.startTime) < ParseTime(a.endTime)

SameSlotOwner(c, req) == c.expert = req.expertId /\ c.date = req.date

ValidWindow(req) == ParseTime(req.startTime) < ParseTime(req.endTime)

SlotUnavailable(r) ==
  r.code = 400 /\ r.message = "Selected time slot is not available"

\* C1: after any sequence of bookConsultation and updateConsultationStatus
\* requests, no two consultations of one expert on one date that are neither
\* cancelled nor rejected have overlapping windows.
NoDoubleBooking ==
  \A i, j \in DOMAIN consultations :
    ( /\ i < j
      /\ consultations[i].expert = consultations[j].expert
      /\ consultations[i].date = consultations[j].date
      /\ Occupies(consultations[i])
      /\ Occupies(consultations[j]) )
    => ~WindowsOverlap(consultations[i], consultations[j])

\* C2: bookConsultation answers 400 and stores nothing whenever the requested
\* window overlaps a scheduled or confirmed consultation of the same expert
\* on the same date.
OverlapRejected ==
  \A req \in BookRequests, notifyOk \in BOOLEAN :
    (\E i \in DOMAIN consultations :
        /\ SameSlotOwner(consultations[i], req)
        /\ consultations[i].status \in {"scheduled", "confirmed"}
        /\ WindowsOverlap(consultations[i], req))
    => LET r == bookConsultation(consultations, req, notifyOk)
       IN SlotUnavailable(r) /\ r.db = consultations

\* C2 witness: a booking has just been refused as unavailable while a
\* scheduled or confirmed consultation is stored.
OverlapRejectedWitness ==
  /\ last.op = "bookConsultation"
  /\ last.code = 400
  /\ \E i \in DOMAIN consultations : consultations[i].status \in {"scheduled", "confirmed"}
  /\ \A i \in DOMAIN consultations : consultations[i].status \in {"scheduled", "confirmed"}

\* C3: two concurrent bookConsultation requests for overlapping windows of
\* the same expert and date never both store a consultation.
RaceNoDoubleBooking ==
  \A p, q \in Procs :
    ( /\ p # q
      /\ pc[p] \in {"notify", "done"} /\ resp[p] \notin {400, 404}
      /\ pc[q] \in {"notify", "done"} /\ resp[q] \notin {400, 404}
      /\ \E i, j \in DOMAIN consultations :
           /\ i # j
           /\ consultations[i] = newConsultation(preq[p])
           /\ consultations[j] = newConsultation(preq[q]) )
    => ~ ( /\ preq[p].expertId = preq[q].expertId
           /\ preq[p].date = preq[q].date
           /\ WindowsOverlap(preq[p], preq[q]) )

\* C4: a request that only touches a scheduled or confirmed consultation
\* (its start is the other's end, or its end the other's start) and overlaps
\* no consultation that occupies a slot is stored by bookConsultation.
AdjacentAccepted ==
  \A req \in BookRequests, notifyOk \in BOOLEAN :
    ( /\ req.expertId \in Experts
      /\ ValidWindow(req)
      /\ \E i \in DOMAIN consultations :
           /\ SameSlotOwner(consultations[i], req)
           /\ consultations[i].status \in {"scheduled", "confirmed"}
           /\ \/ req.startTime = consultations[i].endTime
              \/ req.endTime = consultations[i].startTime
      /\ \A i \in DOMAIN consultations :
           (SameSlotOwner(consultations[i], req) /\ Occupies(consultations[i]))
           => ~WindowsOverlap(consultations[i], req) )
    => bookConsultation(consultations, req, notifyOk).db
         = Append(consultations, newConsultation(req))

\* C5: when the only consultations of the expert that overlap the requested
\* window on that date are cancelled, bookConsultation stores the new
\* consultation.
CancelledNeverBlocks ==
  \A req \in BookRequests, notifyOk \in BOOLEAN :
    ( /\ req.expertId \in Experts
      /\ ValidWindow(req)
      /\ \E i \in DOMAIN consultations :
           /\ SameSlotOwner(consultations[i], req)
           /\ WindowsOverlap(consultations[i], req)
      /\ \A i \in DOMAIN consultations :
           (SameSlotOwner(consultations[i], req) /\ WindowsOverlap(consultations[i], req))
           => consultations[i].status = "cancelled" )
    => bookConsultation(consultations, req, notifyOk).db
         = Append(consultations, newConsultation(req))

ZeroLengthIsValidationError ==
  \A req \in BookRequests, notifyOk \in BOOLEAN :
    (req.expertId \in Experts /\ req.startTime = req.endTime)
    => LET r == bookConsultation(consultations, req, notifyOk)
       IN r.code = 400 /\ ~SlotUnavailable(r) /\ r.db = consultations

\* C9: a booking refused because the slot is taken (by the availability
\* check, the pre-save check or the unique index) is answered 400, never 500.
SlotTakenIs400 ==
  ( /\ last.op = "bookConsultation"
    /\ \/ last.code = 400
       \/ last.error \in {"This time slot is already booked",
                          "E11000 duplicate key error"} )
  => last.code = 400

----------------------------------------------------------------------------
(* Properties of visits *)

ActiveVisit(b) == b.bookingType = "visit" /\ b.status \in {"pending", "confirmed"}

WellFormedVisit(req) ==
  /\ Role(req.user) = "tenant"
  /\ ~visitValidationErrors(req)
  /\ req.property \in PropertyIds

----------------------------------------------------------------------------
(* Properties of view tracking *)

\* C10: the fetches of one authenticated user who is not the owner increase
\* the property's analytics.views by exactly one in total, whatever the times
\* and IP addresses of the fetches.
ViewedOncePerUser ==
  \A u \in Viewers, p \in PropertyIds :
    (u # properties[p].owner /\ viewLog[u].fetched) => viewLog[u].credited = 1

\* C11: an anonymous fetch from an IP address adds one view exactly when no
\* view record of that IP is younger than 24 hours, and otherwise changes
\* nothing; so two view records of one IP are never less than 24 hours apart.
AnonymousViewOncePerWindow ==
  \A p \in PropertyIds :
    LET prop == properties[p]
    IN /\ \A ip \in IPs :
            LET after == getProperty(prop, Undefined, ip, now)
                recent == \E k \in DOMAIN prop.viewedBy :
                            /\ prop.viewedBy[k].ipAddress = ip
                            /\ prop.viewedBy[k].viewedAt > now - DayHours
            IN IF recent
                 THEN after = prop
                 ELSE /\ after.views = prop.views + 1
                      /\ Len(after.viewedBy) = Len(prop.viewedBy) + 1
       /\ \A k, l \in DOMAIN prop.viewedBy :
            (k < l /\ prop.viewedBy[k].ipAddress = prop.viewedBy[l].ipAddress)
            => prop.viewedBy[l].viewedAt - prop.viewedBy[k].viewedAt >= DayHours

\* C11 witness: an IP address has been counted a second time after its
\* window passed; the latest request was a fetch and the clock is inside the
\* new window.
AnonymousViewWitness ==
  /\ last.op = "getProperty"
  /\ \E p \in PropertyIds :
       LET vb == properties[p].viewedBy
       IN \E k, l \in DOMAIN vb :
            /\ k < l
            /\ vb[k].ipAddress = vb[l].ipAddress
            /\ vb[k].user = Undefined /\ vb[l].user = Undefined
            /\ now > vb[l].viewedAt
            /\ now - vb[l].viewedAt < DayHours
            /\ properties[p].views = Len(vb)

\* C12: the fetches of a property's own authenticated owner never add a view
\* or a view record to that property.
OwnerFetchIsNoOp ==
  \A p \in PropertyIds :
    LET o == properties[p].owner
    IN o \in Viewers => viewLog[o].credited = 0

\* C13: two concurrent fetches of one property by the same viewer (the same
\* credentials from the same IP address) add at most one view between them,
\* whatever the order of their reads and writes.
ConcurrentViewsCountOnce ==
  \A p, q \in Procs :
    ( /\ p # q
      /\ pc[p] = "done" /\ pc[q] = "done"
      /\ preq[p].id \in PropertyIds
      /\ preq[p].id = preq[q].id
      /\ preq[p].cred = preq[q].cred
      /\ preq[p].ip = preq[q].ip )
    => properties[preq[p].id].views <= 1

----------------------------------------------------------------------------
(* Properties of analytics and ratings *)

Abs(n) == IF n < 0 THEN 0 - n ELSE n

\* v is a number with at most `digits` decimals that is a nearest such
\* decimal to num / den.
RoundedTo(v, digits, num, den) ==
  /\ v.type = "number"
  /\ (v.num * Pow10(digits)) % v.den = 0
  /\ 2 * Abs(((v.num * Pow10(digits)) \div v.den) * den - Pow10(digits) * num) <= den

IsZero(v) == v.type = "number" /\ v.num = 0

RateOf(rate, bookingCount, viewCount) ==
  IF viewCount > 0 THEN RoundedTo(rate, 2, 100 * bookingCount, viewCount)
  ELSE IsZero(rate)

OwnerAnalytics(user) ==
  ownerAnalytics(properties, bookings, enquiries, favorites, reviews, user, {})

PropertyAnalytics(id, user) ==
  propertyAnalytics(properties, bookings, enquiries, favorites, accounts, id, user)

\* C14: the conversion rate of the per-property analytics and of the
\* portfolio analytics is bookings / views * 100 rounded to 2 decimals when
\* there are views and 0 when there are none; 2 bookings on 10 views give 20.
ConversionRateRounded ==
  /\ \A id \in DOMAIN properties :
       LET r == PropertyAnalytics(id, properties[id].owner)
       IN r.code = 200 =>
            RateOf(r.body.conversionRate, r.body.bookings, r.body.views)
  /\ \A user \in {"o1", "o2"} :
       LET r == OwnerAnalytics(user)
       IN r.code = 200 =>
            RateOf(r.body.conversionRate, r.body.totalBookings, r.body.totalViews)
  /\ parseFloat(conversionRate(2, 10)) = JSNumber(2000, 100)

\* C14 witness: a property with 3 views and 2 bookings, reported at 66.67.
ConversionRateWitness ==
  \E id \in DOMAIN properties :
    LET r == PropertyAnalytics(id, properties[id].owner)
    IN /\ r.code = 200
       /\ r.body.views = 3 /\ r.body.bookings = 2
       /\ r.body.conversionRate = JSNumber(6667, 100)

RatingOf(avg, revs) ==
  IF Len(revs) > 0 THEN RoundedTo(avg, 1, sumRatings(revs), Len(revs))
  ELSE IsZero(avg)

\* C15: every averageRating returned (property list and detail, user stats,
\* portfolio analytics and its rows) is the number sum of ratings / number of
\* reviews rounded to 1 decimal, and the number 0 when there are no reviews.
AverageRatingRounded ==
  /\ \A id \in DOMAIN properties :
       RatingOf(propertyAverageRating(reviews, id),
                SelectSeq(reviews, LAMBDA r : r.property = id /\ r.isActive))
  /\ \A user \in {"o1", "o2"} :
       RatingOf(statsAverageRating(reviews, user),
                SelectSeq(reviews, LAMBDA r : r.owner = user /\ r.isActive))
  /\ \A user \in {"o1", "o2"} :
       LET r == OwnerAnalytics(user)
           rows == r.body.propertyAnalytics
       IN r.code = 200 =>
            /\ RatingOf(r.body.averageRating,
                        SelectSeq(reviews, LAMBDA d : d.property \in DOMAIN rows))
            /\ \A p \in DOMAIN rows :
                 RatingOf(rows[p].averageRating,
                          SelectSeq(reviews, LAMBDA d : d.property = p))

\* C16: every total of the portfolio analytics is the sum of the field over
\* the rows, and there is one row per active and visible property of the owner.
PortfolioTotalsAreRowSums ==
  \A user \in {"o1", "o2"} :
    LET r == OwnerAnalytics(user)
        rows == r.body.propertyAnalytics
        RowSum(field) == reduce([p \in DOMAIN rows |-> rows[p][field]], DOMAIN rows)
    IN r.code = 200 =>
         /\ DOMAIN rows = {p \in DOMAIN properties :
                             /\ properties[p].owner = user
                             /\ properties[p].isActive /\ properties[p].isVisible}
         /\ r.body.totalViews = RowSum("views")
         /\ r.body.totalEnquiries = RowSum("enquiries")
         /\ r.body.totalBookings = RowSum("bookings")
         /\ r.body.totalFavorites = RowSum("favorites")
         /\ r.body.totalReviews = RowSum("reviews")
         /\ r.body.totalRevenue = RowSum("revenue")

\* C16 witness: the owner's portfolio has a row with a view and a row with a
\* booking, and three documents in all.
PortfolioTotalsWitness ==
  LET r == OwnerAnalytics("o1")
      rows == r.body.propertyAnalytics
  IN /\ r.code = 200
     /\ \E p, q \in DOMAIN rows :
          p # q /\ rows[p].views = 1 /\ rows[q].bookings = 1
     /\ r.body.totalViews + r.body.totalEnquiries + r.body.totalBookings
          + r.body.totalFavorites + r.body.totalReviews = 3

\* C17: for a property with a row in its owner's portfolio, the per-property
\* analytics report the row's views and bookings, and, when it is the only
\* row, the portfolio's conversion rate.
EndpointsConsistent ==
  \A id \in DOMAIN properties :
    LET one == PropertyAnalytics(id, properties[id].owner)
        all == OwnerAnalytics(properties[id].owner)
        rows == all.body.propertyAnalytics
    IN (one.code = 200 /\ all.code = 200 /\ id \in DOMAIN rows) =>
         /\ one.body.views = rows[id].views
         /\ one.body.bookings = rows[id].bookings
         /\ DOMAIN rows = {id} => one.body.conversionRate = all.body.conversionRate

\* C18: when the documents of one property of a portfolio cannot be read,
\* the portfolio analytics still answer 200 with the rows of the other
\* properties, and only that property's row is missing.
UnreadablePropertyOmitted ==
  \A user \in {"o1", "o2"}, p \in DOMAIN properties :
    LET all == OwnerAnalytics(user)
        r == ownerAnalytics(properties, bookings, enquiries, favorites, reviews, user, {p})
    IN (all.code = 200 /\ p \in DOMAIN all.body.propertyAnalytics) =>
         /\ r.code = 200
         /\ DOMAIN r.body.propertyAnalytics = DOMAIN all.body.propertyAnalytics \ {p}
         /\ \A q \in DOMAIN r.body.propertyAnalytics :
              r.body.propertyAnalytics[q] = all.body.propertyAnalytics[q]

----------------------------------------------------------------------------
(* Properties of the appointment lifecycle *)

AppointmentsNeverRemoved ==
  [][ /\ \A i \in DOMAIN bookings :
           /\ i \in DOMAIN bookings'
           /\ bookings'[i].user = bookings[i].user
           /\ bookings'[i].property = bookings[i].property
      /\ \A i \in DOMAIN consultations :
           /\ i \in DOMAIN consultations'
           /\ consultations'[i].user = consultations[i].user
           /\ consultations'[i].expert = consultations[i].expert ]_vars

----------------------------------------------------------------------------
(* Properties of properties, reviews and accounts *)

\* C21: properties and reviews are never physically deleted: every property
\* and every review (the review of a tenant for a property) stored before a
\* step is still stored after it.
RecordsNeverRemoved ==
  [][ /\ DOMAIN properties \subseteq DOMAIN properties'
      /\ \A i \in DOMAIN reviews :
           \E j \in DOMAIN reviews' :
             /\ reviews'[j].tenant = reviews[i].tenant
             /\ reviews'[j].property = reviews[i].property ]_vars

\* C24: an update or a soft delete of a property requested by a user who is
\* not an owner, or who is not the owner of that property, is answered 403
\* and leaves the properties unchanged.
PropertyChangedOnlyByOwner ==
  \A id \in DOMAIN properties, user \in Users :
    (Role(user) # "owner" \/ user # properties[id].owner)
    => /\ \A body \in PropertyBodies :
            LET r == putProperty(properties, id, user, body)
            IN r.code = 403 /\ r.db = properties
       /\ LET r == deleteProperty(properties, id, user)
          IN r.code = 403 /\ r.db = properties

\* C24 witness: the property has been handed to another owner by an update,
\* and the update of an owner who no longer owns it has just been refused.
PropertyChangedWitness ==
  /\ last.op = "putProperty"
  /\ last.code = 403
  /\ last.error = "Not authorized to update this property"
  /\ \E id \in DOMAIN properties :
       properties[id].owner # PropertyOwner(id) /\ properties[id].isActive

----------------------------------------------------------------------------
(* Properties of notification *)

\* C22: a failure of the notifier after a consultation was booked or its
\* status updated changes neither what is stored nor the response: the
\* request is answered as it is when the notifier succeeds.
NotifierFailureKeepsOutcome ==
  /\ \A req \in BookRequests :
       LET ok == bookConsultation(consultations, req, TRUE)
           failed == bookConsultation(consultations, req, FALSE)
       IN failed.code = ok.code /\ failed.db = ok.db
  /\ \A id \in DOMAIN consultations, status \in StatusInputs, user \in Actors :
       LET ok == updateConsultationStatus(consultations, id, status, user, TRUE)
           failed == updateConsultationStatus(consultations, id, status, user, FALSE)
       IN failed.code = ok.code /\ failed.db = ok.db

----------------------------------------------------------------------------
(* Properties of reviews *)

----------------------------------------------------------------------------
(* Properties of the owner's answer and of visits *)

\* C25: the owner's answer to a pending booking of an own property is
\* stored and reported as a success, for confirmed and for rejected.
RespondAcceptsBothAnswers ==
  \A id \in DOMAIN bookings, status \in {"confirmed", "rejected"} :
    bookings[id].status = "pending" =>
      LET r == ownerRespond(bookings, id, status, PropertyOwner(bookings[id].property))
      IN r.code = 200 /\ r.db[id].status = status

\* C26: a tenant never has two pending or confirmed visits of one property.
OneActiveVisitPerTenant ==
  \A i, j \in DOMAIN bookings :
    ( /\ i < j
      /\ ActiveVisit(bookings[i]) /\ ActiveVisit(bookings[j])
      /\ bookings[i].user = bookings[j].user )
    => bookings[i].property # bookings[j].property

----------------------------------------------------------------------------
(* Properties of roles *)

\* C27: a role change requested by a user whose role is tenant or owner
\* changes no user's role.
RoleChangedOnlyByAdmin ==
  \A user \in accounts, userId \in Users \cup {"u0"}, role \in RoleInputs :
    userDocs[user].role \in {"tenant", "owner"}
    => patchUserRole(userDocs, accounts, user, userId, role).db = userDocs

----------------------------------------------------------------------------
(* Properties of views and of inactive reviews *)

\* C28: the counter analytics.views of a property equals the number of
\* records of its viewedBy list, whatever the interleaving of the fetches.
ViewsEqualViewRecords ==
  \A id \in DOMAIN properties : properties[id].views = Len(properties[id].viewedBy)

\* C28 witness: two fetches of one property have ended and both were counted.
ViewsEqualWitness ==
  /\ \A p \in Procs : pc[p] = "done" /\ resp[p] = 200
  /\ \E id \in DOMAIN properties :
       properties[id].views = 2 /\ Len(properties[id].viewedBy) = 2

ActiveReviews(revs) == SelectSeq(revs, LAMBDA r : r.isActive)

\* C29: the review counts and average ratings every endpoint returns are
\* those of the reviews that are not soft-deleted.
InactiveReviewsExcluded ==
  /\ \A id \in DOMAIN properties :
       propertyAverageRating(reviews, id)
         = roundedRating(SelectSeq(ActiveReviews(reviews), LAMBDA r : r.property = id))
  /\ \A user \in {"o1", "o2"} :
       statsAverageRating(reviews, user)
         = roundedRating(SelectSeq(ActiveReviews(reviews), LAMBDA r : r.owner = user))
  /\ \A user \in {"o1", "o2"} :
       LET r == OwnerAnalytics(user)
           counted == ownerAnalytics(properties, bookings, enquiries, favorites,
                                     ActiveReviews(reviews), user, {})
           rows == r.body.propertyAnalytics
       IN r.code = 200 =>
            /\ r.body.totalReviews = counted.body.totalReviews
            /\ r.body.averageRating = counted.body.averageRating
            /\ \A p \in DOMAIN rows :
                 /\ rows[p].reviews = counted.body.propertyAnalytics[p].reviews
                 /\ rows[p].averageRating = counted.body.propertyAnalytics[p].averageRating

----------------------------------------------------------------------------
(* Properties of chats *)

\* A caller who is neither the chat's user nor its support agent.
Outsider(chat, caller) ==
  caller.id # chat.user /\ caller.id # Field(chat, "supportAgent")

\* C30: a sendMessage request, with or without isBot, and a closeChat request
\* of a caller who is neither the user nor the support agent of a chat leave
\* every chat as it is, whether or not the chat has a support agent.
OutsiderNeverChangesChat ==
  \A id \in DOMAIN chats, caller \in ChatCallers :
    Outsider(chats[id], caller)
    => /\ \A isBot \in BOOLEAN : sendMessage(chats, id, caller, isBot).db = chats
       /\ closeChat(chats, id, caller).db = chats

\* C30 witness: every chat that can be stored is stored, active and without a
\* support agent, and a closeChat request has just been refused.
OutsiderWitness ==
  /\ last.op = "closeChat"
  /\ last.code = 404
  /\ Len(chats) = MaxChats
  /\ \A i \in DOMAIN chats :
       /\ chats[i].status = "active"
       /\ Field(chats[i], "supportAgent") = Null
       /\ chats[i].messages # <<>>

====
